---- MODULE Spec2Model ----
(***************************************************************************)
(* A model of run_vad (src/core/providers/vad/silero/run_silero_vad.py):   *)
(* the one-shot voice-activity pipeline                                    *)
(*   read waveform -> rate check -> channel collapse -> peak normalise ->  *)
(*   model check -> model load -> inference -> threshold scan -> print.    *)
(*                                                                         *)
(* Amplitudes are exact rationals <<num, den>> in lowest terms (den > 0).  *)
(* Probabilities and the threshold are integers in tenths (5 is 0.5).      *)
(* Python indices are 0-based; speech_probs[i] of the code is              *)
(* speech_probs[i + 1] here.                                               *)
(***************************************************************************)
EXTENDS Integers, Sequences, FiniteSets, TLC

\* ---------------------------------------------------------------------
\* Bounds of the input space
\* ---------------------------------------------------------------------
MaxSamples == 2
MaxLen == 3
\* Invocations of the script on the same files and flags.
MaxRuns == 2

\* Sample amplitudes a file may hold (float WAV data may exceed 1.0).
Amps == {-2, 0, 1, 3}
\* soundfile gives a 1-D array for one channel, a 2-D one for more.
Channels == {1, 2}
Rates == {8000, 16000}
\* Probabilities in tenths: below, at and above the default threshold.
ProbVals == {4, 5, 6}
Thresholds == {4, 5, 6}
DefaultThreshold == 5
DefaultRate == 16000
\* Significand width of numpy.float32.
F32Precision == 24

\* The two scenarios of the specification's section 8.
ScenarioCurve == <<1, 6, 7, 4, 9, 3>>
OpenCurve == <<9, 9, 9>>

\* ---------------------------------------------------------------------
\* Exact rational arithmetic for amplitudes
\* ---------------------------------------------------------------------
Abs(n) == IF n < 0 THEN -n ELSE n

RECURSIVE GCD(_, _)
GCD(a, b) == IF b = 0 THEN a ELSE GCD(b, a % b)

Rat(n, d) == LET g == GCD(Abs(n), d) IN <<n \div g, d \div g>>

RAbs(q) == <<Abs(q[1]), q[2]>>

RLess(p, q) == p[1] * q[2] < q[1] * p[2]

RAdd(p, q) == Rat(p[1] * q[2] + q[1] * p[2], p[2] * q[2])

\* p / q for q > 0
RDiv(p, q) == Rat(p[1] * q[2], p[2] * q[1])

One == <<1, 1>>

RECURSIVE RSum(_)
RSum(s) == IF s = <<>> THEN <<0, 1>> ELSE RAdd(Head(s), RSum(Tail(s)))

\* All sequences over S of length 0..n
SeqsUpTo(S, n) == UNION {[1..k -> S] : k \in 0..n}

\* ---------------------------------------------------------------------
\* numpy operations used by run_vad
\* ---------------------------------------------------------------------
\* audio.mean(axis=1): the arithmetic mean of each frame's channels.
MeanAxis1(frames) ==
    [k \in 1..Len(frames) |-> RDiv(RSum(frames[k]), <<Len(frames[k]), 1>>)]

\* Variant: the maximum without the absolute value.
RECURSIVE AbsMax_NoAbs(_)
AbsMax_NoAbs(a) ==
    IF Len(a) = 1 THEN a[1]
    ELSE LET m == AbsMax_NoAbs(Tail(a)) IN
         IF RLess(m, a[1]) THEN a[1] ELSE m

\* np.abs(a).max() of a non-empty 1-D array.
RECURSIVE AbsMax(_)
AbsMax(a) ==
    IF Len(a) = 1 THEN RAbs(a[1])
    ELSE LET m == AbsMax(Tail(a)) IN
         IF RLess(m, RAbs(a[1])) THEN RAbs(a[1]) ELSE m

\* Variant: normalises whenever the peak is non-zero.
PeakExceedsOne_NonZero(a) == RLess(<<0, 1>>, AbsMax(a))

\* np.abs(audio).max() > 1.0
PeakExceedsOne(a) == RLess(One, AbsMax(a))

\* audio / np.abs(audio).max()
DivideByPeak(a) == [k \in 1..Len(a) |-> RDiv(a[k], AbsMax(a))]

\* n / d rounded to the nearest integer (d > 0), ties to even.
RoundDiv(n, d) ==
    LET f == n \div d
        r == n - f * d
    IN  IF 2 * r < d THEN f
        ELSE IF 2 * r > d THEN f + 1
        ELSE IF f % 2 = 0 THEN f ELSE f + 1

\* The exponent e >= 0 for which |q| * 2^e has a full significand
\* (0 < |q| < 2^F32Precision).
RECURSIVE F32Scale(_, _)
F32Scale(q, e) ==
    IF q[1] * (2 ^ e) >= q[2] * (2 ^ (F32Precision - 1)) THEN e
    ELSE F32Scale(q, e + 1)

\* astype(np.float32) of one value: round to F32Precision significant bits.
ToFloat32(q) ==
    IF q[1] = 0 THEN q
    ELSE LET e == F32Scale(RAbs(q), 0)
             m == RoundDiv(Abs(q[1]) * (2 ^ e), q[2])
         IN  Rat((IF q[1] < 0 THEN -m ELSE m), 2 ^ e)

\* audio.astype(np.float32)[None, :] : one batch row holding all samples.
AsInput(a) == << [k \in 1..Len(a) |-> ToFloat32(a[k])] >>

\* ---------------------------------------------------------------------
\* The files the run is pointed at
\* ---------------------------------------------------------------------
\* A waveform file: unreadable, or a rate and frames of `channels` samples.
Frames(c) == SeqsUpTo([1..c -> Amps], MaxSamples)

BadWav == [readable |-> FALSE, sr |-> DefaultRate, channels |-> 1, frames |-> <<>>]

AllWavs ==
    {BadWav} \cup
    UNION {[readable : {TRUE}, sr : Rates, channels : {c}, frames : Frames(c)] :
            c \in Channels}

FewWavs ==
    {BadWav} \cup
    [readable : {TRUE}, sr : Rates, channels : {1}, frames : {<< <<1>> >>}]

\* A model file: absent, present but not loadable, loadable but failing at
\* inference, or working and returning the curve `out` for the waveform.
ModelFiles(curves) ==
    {[exists |-> FALSE, loads |-> FALSE, runs |-> FALSE, out |-> <<>>],
     [exists |-> TRUE, loads |-> FALSE, runs |-> FALSE, out |-> <<>>],
     [exists |-> TRUE, loads |-> TRUE, runs |-> FALSE, out |-> <<>>]} \cup
    [exists : {TRUE}, loads : {TRUE}, runs : {TRUE}, out : curves]

AllCurves == SeqsUpTo(ProbVals, MaxLen) \cup {ScenarioCurve, OpenCurve}

FewCurves == {<<>>, OpenCurve}

VARIABLES
    wav_file,      \* the file at wav_path
    model_file,    \* the file at model_path
    threshold,     \* run_vad parameter
    sample_rate,   \* run_vad parameter
    pc,            \* position in run_vad
    audio,         \* [ndim, data]: the array read, then preprocessed
    sr,            \* the rate read from the file
    input_audio,   \* the float32 batch handed to the session
    speech_probs,  \* outs[0][0]
    segments, in_speech, seg_start,
    i,             \* the index enumerate() yields next
    stdout,        \* the documents printed
    exit_code,     \* -1 while running, then the process's exit status
    divisions,     \* number of samples divided by the peak
    trace,         \* the stages executed so far, in order
    previous       \* what earlier invocations on the same inputs produced

vars == <<wav_file, model_file, threshold, sample_rate, pc, audio, sr,
          input_audio, speech_probs, segments, in_speech, seg_start, i,
          stdout, exit_code, divisions, trace, previous>>

inputs == <<wav_file, model_file, threshold, sample_rate>>
scanvars == <<speech_probs, segments, in_speech, seg_start, i>>

NoAudio == [ndim |-> 0, data |-> <<>>]

Init ==
    /\ \/ /\ wav_file \in AllWavs
          /\ model_file \in ModelFiles(FewCurves)
          /\ threshold = DefaultThreshold
          /\ sample_rate = DefaultRate
       \/ /\ wav_file \in FewWavs
          /\ model_file \in ModelFiles(AllCurves)
          /\ threshold \in Thresholds
          /\ sample_rate \in Rates
    /\ pc = "read"
    /\ audio = NoAudio
    /\ sr = 0
    /\ input_audio = <<>>
    /\ speech_probs = <<>>
    /\ segments = <<>>
    /\ in_speech = FALSE
    /\ seg_start = 0
    /\ i = 0
    /\ stdout = <<>>
    /\ exit_code = -1
    /\ divisions = 0
    /\ trace = <<>>
    /\ previous = <<>>

\* An uncaught exception: traceback on stderr, nothing on stdout, status 1.
Fault ==
    /\ pc' = "fault"
    /\ exit_code' = 1
    /\ stdout' = stdout

\* print(json.dumps({"error": msg})); sys.exit(1)
ErrorDoc(msg) == [kind |-> "error", body |-> msg]
ArrayDoc(segs) == [kind |-> "array", body |-> segs]

ExitWithError(msg) ==
    /\ stdout' = Append(stdout, ErrorDoc(msg))
    /\ exit_code' = 1
    /\ pc' = "exited"

\* sf.read(wav_path)
SfRead(f) ==
    IF f.channels = 1
    THEN [ndim |-> 1, data |-> [k \in 1..Len(f.frames) |-> <<f.frames[k][1], 1>>]]
    ELSE [ndim |-> 2,
          data |-> [k \in 1..Len(f.frames) |->
                      [c \in 1..f.channels |-> <<f.frames[k][c], 1>>]]]

\* Variant: the rate check is left out.
Read_SkipRateCheck ==
    /\ pc = "read"
    /\ trace' = Append(trace, "read")
    /\ IF wav_file.readable
       THEN /\ audio' = SfRead(wav_file)
            /\ sr' = wav_file.sr
            /\ pc' = "collapse"
            /\ UNCHANGED <<stdout, exit_code>>
       ELSE /\ Fault
            /\ UNCHANGED <<audio, sr>>
    /\ UNCHANGED <<inputs, previous, input_audio, scanvars, divisions>>

\* line 11
Read ==
    /\ pc = "read"
    /\ trace' = Append(trace, "read")
    /\ IF wav_file.readable
       THEN /\ audio' = SfRead(wav_file)
            /\ sr' = wav_file.sr
            /\ pc' = "check_rate"
            /\ UNCHANGED <<stdout, exit_code>>
       ELSE /\ Fault
            /\ UNCHANGED <<audio, sr>>
    /\ UNCHANGED <<inputs, previous, input_audio, scanvars, divisions>>

\* Variant: only a lower rate is rejected.
RateMismatch_OnlyLower(actual, expected) == actual < expected

RateMismatch(actual, expected) == actual # expected

RateMessage(actual, expected) ==
    <<"Sample rate mismatch: ", actual, " != ", expected>>

\* Variant: the error is printed but sys.exit is forgotten.
CheckRate_NoExit ==
    /\ pc = "check_rate"
    /\ trace' = Append(trace, "rate_check")
    /\ IF RateMismatch(sr, sample_rate)
       THEN /\ stdout' = Append(stdout, ErrorDoc(RateMessage(sr, sample_rate)))
            /\ pc' = "collapse"
            /\ UNCHANGED exit_code
       ELSE /\ pc' = "collapse"
            /\ UNCHANGED <<stdout, exit_code>>
    /\ UNCHANGED <<inputs, previous, audio, sr, input_audio, scanvars, divisions>>

\* Variant: a rate mismatch is tolerated.
CheckRate_Lenient ==
    /\ pc = "check_rate"
    /\ trace' = Append(trace, "rate_check")
    /\ pc' = "collapse"
    /\ UNCHANGED <<stdout, exit_code>>
    /\ UNCHANGED <<inputs, previous, audio, sr, input_audio, scanvars, divisions>>

\* lines 12-14
CheckRate ==
    /\ pc = "check_rate"
    /\ trace' = Append(trace, "rate_check")
    /\ IF RateMismatch(sr, sample_rate)
       THEN ExitWithError(RateMessage(sr, sample_rate))
       ELSE /\ pc' = "collapse"
            /\ UNCHANGED <<stdout, exit_code>>
    /\ UNCHANGED <<inputs, previous, audio, sr, input_audio, scanvars, divisions>>

\* lines 15-16
Collapse ==
    /\ pc = "collapse"
    /\ IF audio.ndim > 1
       THEN /\ audio' = [ndim |-> 1, data |-> MeanAxis1(audio.data)]
            /\ trace' = Append(trace, "collapse")
       ELSE UNCHANGED <<audio, trace>>
    /\ pc' = "normalize"
    /\ UNCHANGED <<inputs, previous, sr, input_audio, scanvars, stdout, exit_code, divisions>>

\* lines 18-19; np.abs(audio).max() raises ValueError on an empty array
Normalize ==
    /\ pc = "normalize"
    /\ IF Len(audio.data) = 0
       THEN /\ Fault
            /\ trace' = Append(trace, "peak")
            /\ UNCHANGED <<audio, divisions>>
       ELSE /\ IF PeakExceedsOne(audio.data)
               THEN /\ audio' = [audio EXCEPT !.data = DivideByPeak(audio.data)]
                    /\ divisions' = divisions + Len(audio.data)
                    /\ trace' = trace \o <<"peak", "divide">>
               ELSE /\ trace' = Append(trace, "peak")
                    /\ UNCHANGED <<audio, divisions>>
            /\ pc' = "check_model"
            /\ UNCHANGED <<stdout, exit_code>>
    /\ UNCHANGED <<inputs, previous, sr, input_audio, scanvars>>

\* os.path.exists(model_path)
PathExists(f) == f.exists

ModelMessage == <<"Model not found: ", "model_path">>

\* lines 21-23
CheckModel ==
    /\ pc = "check_model"
    /\ trace' = Append(trace, "model_check")
    /\ IF ~PathExists(model_file)
       THEN ExitWithError(ModelMessage)
       ELSE /\ pc' = "load_model"
            /\ UNCHANGED <<stdout, exit_code>>
    /\ UNCHANGED <<inputs, previous, audio, sr, input_audio, scanvars, divisions>>

\* line 24: ort.InferenceSession(model_path)
LoadModel ==
    /\ pc = "load_model"
    /\ trace' = Append(trace, "model_load")
    /\ IF model_file.loads
       THEN /\ pc' = "infer"
            /\ UNCHANGED <<stdout, exit_code>>
       ELSE Fault
    /\ UNCHANGED <<inputs, previous, audio, sr, input_audio, scanvars, divisions>>

\* Variant: a failing inference is caught and reported as an error object.
Infer_CatchError ==
    /\ pc = "infer"
    /\ trace' = Append(trace, "inference")
    /\ input_audio' = AsInput(audio.data)
    /\ IF model_file.runs
       THEN /\ speech_probs' = model_file.out
            /\ pc' = "init_scan"
            /\ UNCHANGED <<stdout, exit_code>>
       ELSE /\ ExitWithError(<<"Inference failed">>)
            /\ UNCHANGED speech_probs
    /\ UNCHANGED <<inputs, previous, audio, sr, segments, in_speech, seg_start, i,
                   divisions>>

\* Variant: a failing inference is attempted a second time.
Infer_RetryOnce ==
    /\ pc = "infer"
    /\ trace' = Append(trace, "inference")
    /\ input_audio' = AsInput(audio.data)
    /\ IF model_file.runs
       THEN /\ speech_probs' = model_file.out
            /\ pc' = "init_scan"
            /\ UNCHANGED <<stdout, exit_code>>
       ELSE /\ IF \E k \in DOMAIN trace : trace[k] = "inference"
               THEN Fault
               ELSE UNCHANGED <<pc, stdout, exit_code>>
            /\ UNCHANGED speech_probs
    /\ UNCHANGED <<inputs, previous, audio, sr, segments, in_speech, seg_start, i,
                   divisions>>

\* lines 28-31
Infer ==
    /\ pc = "infer"
    /\ trace' = Append(trace, "inference")
    /\ input_audio' = AsInput(audio.data)
    /\ IF model_file.runs
       THEN /\ speech_probs' = model_file.out
            /\ pc' = "init_scan"
            /\ UNCHANGED <<stdout, exit_code>>
       ELSE /\ Fault
            /\ UNCHANGED speech_probs
    /\ UNCHANGED <<inputs, previous, audio, sr, segments, in_speech, seg_start, i, divisions>>

\* lines 33-35, and enumerate() starting at index 0
InitScan ==
    /\ pc = "init_scan"
    /\ trace' = Append(trace, "scan")
    /\ segments' = <<>>
    /\ in_speech' = FALSE
    /\ seg_start' = 0
    /\ i' = 0
    /\ pc' = "scan"
    /\ UNCHANGED <<inputs, previous, audio, sr, input_audio, speech_probs, stdout,
                   exit_code, divisions>>

\* Variant: entry on >= instead of >.
EntersSpeech_AtOrAbove(speaking, prob, t) == ~speaking /\ prob >= t

\* line 37: not in_speech and prob > threshold
EntersSpeech(speaking, prob, t) == ~speaking /\ prob > t

\* Variant: exit on < instead of <=.
LeavesSpeech_Strict(speaking, prob, t) == speaking /\ prob < t

\* line 40: in_speech and prob <= threshold
LeavesSpeech(speaking, prob, t) == speaking /\ prob <= t

\* Variant: seg_start is not recorded on entry.
ScanStep_StaleStart ==
    /\ pc = "scan"
    /\ i < Len(speech_probs)
    /\ LET prob == speech_probs[i + 1] IN
       IF EntersSpeech(in_speech, prob, threshold)
       THEN /\ in_speech' = TRUE
            /\ UNCHANGED <<seg_start, segments>>
       ELSE IF LeavesSpeech(in_speech, prob, threshold)
       THEN /\ in_speech' = FALSE
            /\ segments' = Append(segments, <<seg_start, i>>)
            /\ UNCHANGED seg_start
       ELSE UNCHANGED <<in_speech, seg_start, segments>>
    /\ i' = i + 1
    /\ UNCHANGED <<inputs, previous, pc, audio, sr, input_audio, speech_probs, stdout,
                   exit_code, divisions, trace>>

\* Variant: the closing index is taken one past the failing sample.
ScanStep_EndInclusive ==
    /\ pc = "scan"
    /\ i < Len(speech_probs)
    /\ LET prob == speech_probs[i + 1] IN
       IF EntersSpeech(in_speech, prob, threshold)
       THEN /\ in_speech' = TRUE
            /\ seg_start' = i
            /\ UNCHANGED segments
       ELSE IF LeavesSpeech(in_speech, prob, threshold)
       THEN /\ in_speech' = FALSE
            /\ segments' = Append(segments, <<seg_start, i + 1>>)
            /\ UNCHANGED seg_start
       ELSE UNCHANGED <<in_speech, seg_start, segments>>
    /\ i' = i + 1
    /\ UNCHANGED <<inputs, previous, pc, audio, sr, input_audio, speech_probs,
                   stdout, exit_code, divisions, trace>>

\* Variant: a segment one sample after the last one is merged into it.
ScanStep_MergeNear ==
    /\ pc = "scan"
    /\ i < Len(speech_probs)
    /\ LET prob == speech_probs[i + 1] IN
       IF EntersSpeech(in_speech, prob, threshold)
       THEN /\ in_speech' = TRUE
            /\ IF segments # <<>> /\ segments[Len(segments)][2] = i - 1
               THEN /\ seg_start' = segments[Len(segments)][1]
                    /\ segments' = SubSeq(segments, 1, Len(segments) - 1)
               ELSE /\ seg_start' = i
                    /\ UNCHANGED segments
       ELSE IF LeavesSpeech(in_speech, prob, threshold)
       THEN /\ in_speech' = FALSE
            /\ segments' = Append(segments, <<seg_start, i>>)
            /\ UNCHANGED seg_start
       ELSE UNCHANGED <<in_speech, seg_start, segments>>
    /\ i' = i + 1
    /\ UNCHANGED <<inputs, previous, pc, audio, sr, input_audio, speech_probs,
                   stdout, exit_code, divisions, trace>>

\* lines 36-42: one iteration of the loop
ScanStep ==
    /\ pc = "scan"
    /\ i < Len(speech_probs)
    /\ LET prob == speech_probs[i + 1] IN
       IF EntersSpeech(in_speech, prob, threshold)
       THEN /\ in_speech' = TRUE
            /\ seg_start' = i
            /\ UNCHANGED segments
       ELSE IF LeavesSpeech(in_speech, prob, threshold)
       THEN /\ in_speech' = FALSE
            /\ segments' = Append(segments, <<seg_start, i>>)
            /\ UNCHANGED seg_start
       ELSE UNCHANGED <<in_speech, seg_start, segments>>
    /\ i' = i + 1
    /\ UNCHANGED <<inputs, previous, pc, audio, sr, input_audio, speech_probs, stdout,
                   exit_code, divisions, trace>>

\* Variant: an open segment is dropped at the end of the curve.
EndOfStream_NoClose ==
    /\ pc = "scan"
    /\ i = Len(speech_probs)
    /\ pc' = "emit"
    /\ UNCHANGED <<inputs, previous, audio, sr, input_audio, scanvars, stdout, exit_code,
                   divisions, trace>>

\* Variant: the final segment is appended whatever the state.
EndOfStream_AlwaysClose ==
    /\ pc = "scan"
    /\ i = Len(speech_probs)
    /\ segments' = Append(segments, <<seg_start, Len(speech_probs)>>)
    /\ pc' = "emit"
    /\ UNCHANGED <<inputs, previous, audio, sr, input_audio, speech_probs, in_speech,
                   seg_start, i, stdout, exit_code, divisions, trace>>

\* lines 43-44: the loop is exhausted
EndOfStream ==
    /\ pc = "scan"
    /\ i = Len(speech_probs)
    /\ IF in_speech
       THEN segments' = Append(segments, <<seg_start, Len(speech_probs)>>)
       ELSE UNCHANGED segments
    /\ pc' = "emit"
    /\ UNCHANGED <<inputs, previous, audio, sr, input_audio, speech_probs, in_speech,
                   seg_start, i, stdout, exit_code, divisions, trace>>

\* Variant: an empty result is reported as an error.
Emit_ErrorOnEmpty ==
    /\ pc = "emit"
    /\ trace' = Append(trace, "emit")
    /\ IF segments = <<>>
       THEN ExitWithError(<<"No speech detected">>)
       ELSE /\ stdout' = Append(stdout, ArrayDoc(segments))
            /\ exit_code' = 0
            /\ pc' = "done"
    /\ UNCHANGED <<inputs, previous, audio, sr, input_audio, scanvars, divisions>>

\* Variant: the segments are printed in an arbitrary order.
Emit_Unordered ==
    /\ pc = "emit"
    /\ trace' = Append(trace, "emit")
    /\ \E p \in {f \in [DOMAIN segments -> DOMAIN segments] :
                    \A a, b \in DOMAIN segments : a # b => f[a] # f[b]} :
          stdout' = Append(stdout,
                           ArrayDoc([k \in DOMAIN segments |-> segments[p[k]]]))
    /\ exit_code' = 0
    /\ pc' = "done"
    /\ UNCHANGED <<inputs, previous, audio, sr, input_audio, scanvars, divisions>>

\* line 45, then the script ends with status 0
Emit ==
    /\ pc = "emit"
    /\ trace' = Append(trace, "emit")
    /\ stdout' = Append(stdout, ArrayDoc(segments))
    /\ exit_code' = 0
    /\ pc' = "done"
    /\ UNCHANGED <<inputs, previous, audio, sr, input_audio, scanvars, divisions>>

Next ==
    \/ Read
    \/ CheckRate
    \/ Collapse
    \/ Normalize
    \/ CheckModel
    \/ LoadModel
    \/ Infer
    \/ InitScan
    \/ ScanStep
    \/ EndOfStream
    \/ Emit

Spec == Init /\ [][Next]_vars

Terminated == pc \in {"done", "exited", "fault"}

\* One synchronous thread: the statement the run has reached is executed.
FairSpec == Spec /\ WF_vars(Next)

\* What a finished invocation leaves behind: its status, its standard
\* output, and whether it died of an uncaught exception.
Outcome == [status |-> exit_code, output |-> stdout, uncaught |-> pc = "fault"]

\* lines 47-54: the script is invoked again with the same arguments on the
\* same files; the new process starts from nothing.
Rerun ==
    /\ Terminated
    /\ Len(previous) < MaxRuns - 1
    /\ previous' = Append(previous, Outcome)
    /\ pc' = "read"
    /\ audio' = NoAudio
    /\ sr' = 0
    /\ input_audio' = <<>>
    /\ speech_probs' = <<>>
    /\ segments' = <<>>
    /\ in_speech' = FALSE
    /\ seg_start' = 0
    /\ i' = 0
    /\ stdout' = <<>>
    /\ exit_code' = -1
    /\ divisions' = 0
    /\ trace' = <<>>
    /\ UNCHANGED inputs

NextTwice ==
    \/ Next
    \/ Rerun

SpecTwice == Init /\ [][NextTwice]_vars

\* ---------------------------------------------------------------------
\* Vocabulary of the properties
\* ---------------------------------------------------------------------
N == Len(speech_probs)

ScanFinished == pc \in {"emit", "done"}

\* Index idx (0-based) lies in the k-th segment [start, end).
InSegment(idx, k) == segments[k][1] <= idx /\ idx < segments[k][2]

\* The g-th gap, g in 0..Len(segments): before the first segment, between
\* two consecutive ones, after the last.
GapLo(g) == IF g = 0 THEN 0 ELSE segments[g][2]
GapHi(g) == IF g = Len(segments) THEN N ELSE segments[g + 1][1]
InGap(idx, g) == GapLo(g) <= idx /\ idx < GapHi(g)

\* [s, e) is a maximal run of samples above the threshold.
IsRun(c, t, s, e) ==
    /\ s < e
    /\ \A k \in s..(e - 1) : c[k + 1] > t
    /\ (s = 0 \/ ~(c[s] > t))
    /\ (e = Len(c) \/ ~(c[e + 1] > t))

Runs(c, t) == {r \in (0..Len(c)) \X (0..Len(c)) : IsRun(c, t, r[1], r[2])}

Before(stage, k) == \E j \in 1..(k - 1) : trace[j] = stage

Ran(stage) == \E k \in DOMAIN trace : trace[k] = stage

Mismatched == wav_file.readable /\ wav_file.sr # sample_rate

\* C1: once the scan has finished, the segments are sorted by start
\* ascending, pairwise non-overlapping, and every index of [0, N) lies in
\* exactly one segment or exactly one gap.
C1_Partition ==
    ScanFinished =>
        /\ \A k \in 1..(Len(segments) - 1) : segments[k][1] < segments[k + 1][1]
        /\ \A j, k \in DOMAIN segments :
              j # k => \/ segments[j][2] <= segments[k][1]
                       \/ segments[k][2] <= segments[j][1]
        /\ \A idx \in 0..(N - 1) :
              Cardinality({k \in DOMAIN segments : InSegment(idx, k)})
              + Cardinality({g \in 0..Len(segments) : InGap(idx, g)}) = 1

C1_Witness ==
    /\ pc = "done"
    /\ Len(segments) >= 2
    /\ segments[1][1] > 0
    /\ segments[Len(segments)][2] < N

\* C2: once the scan has finished, an index is inside a segment iff its
\* probability exceeds the threshold; the list is exactly the maximal runs
\* above the threshold, in order; the scenario curve gives [[1,3],[4,5]].
C2_ExactRuns ==
    ScanFinished =>
        /\ \A idx \in 0..(N - 1) :
              (\E k \in DOMAIN segments : InSegment(idx, k))
                  <=> speech_probs[idx + 1] > threshold
        /\ {segments[k] : k \in DOMAIN segments} = Runs(speech_probs, threshold)
        /\ Len(segments) = Cardinality(Runs(speech_probs, threshold))
        /\ (speech_probs = ScenarioCurve /\ threshold = DefaultThreshold)
              => segments = << <<1, 3>>, <<4, 5>> >>

C2_Witness ==
    /\ pc = "done"
    /\ speech_probs = ScenarioCurve
    /\ threshold = DefaultThreshold
    /\ stdout = << ArrayDoc(<< <<1, 3>>, <<4, 5>> >>) >>

\* C3: a scan step that reads a sample equal to the threshold never enters
\* Speech; from Speech it goes to Silence and appends [seg_start, i]; and
\* no segment, closed or open, starts at such a sample.
C3_ThresholdBoundary ==
    /\ [][(pc = "scan" /\ i < N /\ i' = i + 1 /\ speech_probs[i + 1] = threshold)
            => /\ ~in_speech'
               /\ IF in_speech
                  THEN segments' = Append(segments, <<seg_start, i>>)
                  ELSE segments' = segments]_vars
    /\ [](/\ \A k \in DOMAIN segments : speech_probs[segments[k][1] + 1] # threshold
          /\ in_speech => speech_probs[seg_start + 1] # threshold)

C3_Witness ==
    /\ pc = "scan"
    /\ i > 1
    /\ speech_probs[i] = threshold
    /\ segments # <<>>
    /\ segments[Len(segments)][2] = i - 1
    /\ ~in_speech

\* C4: leaving the loop in Speech appends exactly [seg_start, N] as the last
\* segment, leaving it in Silence appends nothing; [0.9, 0.9, 0.9] at 0.5
\* gives [[0,3]].
C4_EndOfStreamClosure ==
    /\ [][(pc = "scan" /\ pc' # "scan")
            => /\ i = N
               /\ IF in_speech
                  THEN segments' = Append(segments, <<seg_start, N>>)
                  ELSE segments' = segments]_vars
    /\ []((ScanFinished /\ speech_probs = OpenCurve /\ threshold = DefaultThreshold)
            => segments = << <<0, 3>> >>)

C4_Witness ==
    /\ pc = "emit"
    /\ in_speech
    /\ Len(segments) >= 2
    /\ segments[Len(segments)] = <<seg_start, N>>

\* C5: in every state every segment satisfies 0 <= start < end <= N.
C5_WellFormed ==
    \A k \in DOMAIN segments :
        /\ 0 <= segments[k][1]
        /\ segments[k][1] < segments[k][2]
        /\ segments[k][2] <= N

C5_Witness ==
    /\ pc = "scan"
    /\ i < N
    /\ segments # <<>>
    /\ segments[Len(segments)][2] = i - 1

\* C6: when the file's rate differs from the expected rate, the run only
\* reads and checks the rate, then exits with status 1 having printed
\* exactly {"error": "Sample rate mismatch: <actual> != <expected>"};
\* nothing is preprocessed, checked, loaded, inferred or segmented.
C6_SampleRateMismatch ==
    (Mismatched /\ pc # "read") =>
        /\ pc \in {"check_rate", "exited"}
        /\ \A k \in DOMAIN trace : trace[k] \in {"read", "rate_check"}
        /\ audio = SfRead(wav_file)
        /\ divisions = 0
        /\ input_audio = <<>> /\ speech_probs = <<>> /\ segments = <<>>
        /\ pc = "check_rate" => (stdout = <<>> /\ exit_code = -1)
        /\ pc = "exited" =>
              /\ exit_code = 1
              /\ Len(stdout) = 1
              /\ stdout[1].kind = "error"
              /\ stdout[1].body =
                    <<"Sample rate mismatch: ", wav_file.sr, " != ", sample_rate>>

C6_Witness ==
    /\ pc = "exited"
    /\ wav_file.sr = 8000
    /\ sample_rate = 16000
    /\ stdout = << ErrorDoc(<<"Sample rate mismatch: ", 8000, " != ", 16000>>) >>

\* C7: a finished run whose rate matched and whose model file is absent has
\* printed one error object and exited non-zero without loading the model,
\* inferring or segmenting.
C7_ModelNotFound ==
    (Terminated /\ wav_file.readable /\ wav_file.sr = sample_rate
        /\ ~model_file.exists) =>
        /\ pc = "exited"
        /\ exit_code # 0
        /\ Len(stdout) = 1
        /\ stdout[1].kind = "error"
        /\ ~Ran("model_load") /\ ~Ran("inference") /\ ~Ran("scan")

ExpensiveStages == {"collapse", "peak", "divide", "model_load", "inference"}

\* C8 as stated: both checks come before any pass over the samples, model
\* loading or inference.
C8_BothChecksFirst ==
    \A k \in DOMAIN trace :
        trace[k] \in ExpensiveStages =>
            Before("rate_check", k) /\ Before("model_check", k)

\* C8 amended: the rate check comes before every pass over the samples and
\* before the model check, the model load and the inference; the model
\* check comes before the model load and the inference but after the peak
\* computation; a failing check ends the run with one error object.
C8_ChecksInOrder ==
    /\ \A k \in DOMAIN trace :
          /\ trace[k] \in ExpensiveStages \cup {"model_check"}
                => Before("rate_check", k)
          /\ trace[k] \in {"model_load", "inference", "scan", "emit"}
                => Before("model_check", k)
          /\ trace[k] = "model_check" => Before("peak", k)
    /\ (trace # <<>> /\ trace[Len(trace)] = "rate_check" /\ Mismatched)
          => (pc = "exited" /\ Len(stdout) = 1 /\ stdout[1].kind = "error")
    /\ (trace # <<>> /\ trace[Len(trace)] = "model_check" /\ ~model_file.exists)
          => (pc = "exited" /\ Len(stdout) = 1 /\ stdout[1].kind = "error")

C8_Witness ==
    /\ pc = "exited"
    /\ ~model_file.exists
    /\ Ran("collapse") /\ Ran("divide") /\ Ran("model_check")

IsPair(p) == Len(p) = 2 /\ p[1] \in Int /\ p[2] \in Int

\* C9: at most one document is ever printed; a run whose inference
\* succeeded can only end with status 0 and one array of [start, end]
\* pairs; a run that failed a check ends with status 1 and one error
\* object; status 0 is only reached with both checks passed.
C9_OutputExclusive ==
    /\ Len(stdout) <= 1
    /\ ~Terminated => (stdout = <<>> /\ exit_code = -1)
    /\ (Terminated /\ Ran("inference") /\ model_file.runs) =>
          /\ pc = "done" /\ exit_code = 0
          /\ Len(stdout) = 1
          /\ stdout[1].kind = "array"
          /\ stdout[1].body = segments
          /\ \A k \in DOMAIN segments : IsPair(segments[k])
    /\ (Terminated /\ (Mismatched \/ (Ran("model_check") /\ ~model_file.exists))) =>
          /\ pc = "exited" /\ exit_code = 1
          /\ Len(stdout) = 1
          /\ stdout[1].kind = "error"
    /\ pc = "done" =>
          (wav_file.sr = sample_rate /\ model_file.exists /\ model_file.runs)
    /\ pc = "fault" => (stdout = <<>> /\ exit_code = 1)

C9_Witness ==
    /\ pc = "done"
    /\ exit_code = 0
    /\ Len(stdout) = 1
    /\ stdout[1].kind = "array"
    /\ Len(stdout[1].body) >= 2

AtMostOne(q) == ~RLess(One, RAbs(q))

\* C10: a normalisation step on a waveform whose samples all have magnitude
\* at most 1 changes no sample and divides nothing; a one-channel file of
\* such samples reaches the model check exactly as it was read.
C10_NormalizeNoOp ==
    /\ [][(pc = "normalize" /\ pc' = "check_model"
            /\ \A k \in DOMAIN audio.data : AtMostOne(audio.data[k]))
            => (audio' = audio /\ divisions' = divisions)]_vars
    /\ []((/\ pc \notin {"read", "check_rate", "collapse", "normalize", "fault"}
           /\ wav_file.channels = 1
           /\ \A k \in DOMAIN wav_file.frames : Abs(wav_file.frames[k][1]) <= 1)
            => (audio = SfRead(wav_file) /\ divisions = 0))

C10_Witness ==
    /\ pc = "check_model"
    /\ wav_file.channels = 1
    /\ Len(audio.data) = MaxSamples
    /\ \A k \in DOMAIN audio.data : audio.data[k] = <<0, 1>>
    /\ divisions = 0
\* The one-channel waveform before normalisation, from the file alone.
Collapsed ==
    IF wav_file.channels = 1 THEN SfRead(wav_file).data
    ELSE MeanAxis1(SfRead(wav_file).data)

Preprocessed == pc \in {"check_model", "load_model", "infer", "init_scan",
                        "scan", "emit", "done"}
                \/ (pc \in {"exited", "fault"} /\ Ran("model_check"))

IsPeakOf(m, a) ==
    /\ \E k \in DOMAIN a : RAbs(a[k]) = m
    /\ \A k \in DOMAIN a : ~RLess(m, RAbs(a[k]))

\* C11: when some sample of the collapsed waveform has magnitude above 1,
\* preprocessing divides every sample by the largest magnitude: afterwards
\* the waveform is one-channel, as long as the input, every sample lies in
\* [-1, 1] and the peak magnitude is exactly 1; the same holds of the
\* float32 batch handed to the inference call.
C11_PeakNormalized ==
    (Preprocessed /\ \E k \in DOMAIN Collapsed : ~AtMostOne(Collapsed[k])) =>
        /\ audio.ndim = 1
        /\ Len(audio.data) = Len(wav_file.frames)
        /\ \E j \in DOMAIN Collapsed :
              /\ IsPeakOf(RAbs(Collapsed[j]), Collapsed)
              /\ \A k \in DOMAIN audio.data :
                    audio.data[k] = RDiv(Collapsed[k], RAbs(Collapsed[j]))
        /\ divisions = Len(audio.data)
        /\ \A k \in DOMAIN audio.data : AtMostOne(audio.data[k])
        /\ IsPeakOf(One, audio.data)
        /\ Ran("inference") =>
              /\ Len(input_audio) = 1
              /\ Len(input_audio[1]) = Len(wav_file.frames)
              /\ \A k \in DOMAIN input_audio[1] : AtMostOne(input_audio[1][k])
              /\ IsPeakOf(One, input_audio[1])

C11_Witness ==
    /\ Ran("inference")
    /\ wav_file.channels = 2
    /\ divisions = MaxSamples
    /\ \E k \in DOMAIN audio.data :
          audio.data[k][2] > 1 /\ input_audio[1][k] # audio.data[k]
\* C12: on an empty probability curve the scan makes no step and no
\* transition, stays in Silence with no segment, and the run prints [] and
\* ends with status 0.
C12_EmptyCurve ==
    (Ran("scan") /\ speech_probs = <<>>) =>
        /\ pc \in {"scan", "emit", "done"}
        /\ i = 0
        /\ ~in_speech
        /\ segments = <<>>
        /\ pc # "done" => (stdout = <<>> /\ exit_code = -1)
        /\ pc = "done" =>
              /\ exit_code = 0
              /\ Len(stdout) = 1
              /\ stdout[1].kind = "array"
              /\ stdout[1].body = <<>>

C12_Witness ==
    /\ pc = "done"
    /\ Ran("scan")
    /\ speech_probs = <<>>
    /\ stdout = << ArrayDoc(<<>>) >>
    /\ exit_code = 0
C14_PreprocessAccepts ==
    (wav_file.readable /\ wav_file.sr = sample_rate) =>
        /\ pc = "fault" => Ran("model_check")
        /\ (Terminated /\ wav_file.frames = <<>> /\ model_file.runs
              /\ model_file.out = <<>>)
              => (pc = "done" /\ stdout = << ArrayDoc(<<>>) >>)
Times(stage) == Cardinality({k \in DOMAIN trace : trace[k] = stage})

\* C15: once the model load or the inference call has failed, the run is
\* dead of an uncaught exception with a non-zero status, has printed
\* neither an error object nor a segment list, has attempted the load and
\* the inference at most once each, and never scans.
C15_InferenceFailureUncaught ==
    ((Ran("model_load") /\ ~model_file.loads)
        \/ (Ran("inference") /\ ~model_file.runs)) =>
        /\ pc = "fault"
        /\ exit_code # 0 /\ exit_code # -1
        /\ stdout = <<>>
        /\ Times("model_load") = 1
        /\ Times("inference") <= 1
        /\ ~model_file.loads => ~Ran("inference")
        /\ ~Ran("scan") /\ ~Ran("emit")

C15_Witness ==
    /\ pc = "fault"
    /\ Ran("inference")
    /\ model_file.loads /\ ~model_file.runs
    /\ stdout = <<>>
StageOrder == <<"read", "rate_check", "collapse", "peak", "divide",
                "model_check", "model_load", "inference", "scan", "emit">>

StageRank(stage) == CHOOSE k \in DOMAIN StageOrder : StageOrder[k] = stage

PcOrder == <<"read", "check_rate", "collapse", "normalize", "check_model",
             "load_model", "infer", "init_scan", "scan", "emit">>

PcRank(p) ==
    IF \E k \in DOMAIN PcOrder : PcOrder[k] = p
    THEN CHOOSE k \in DOMAIN PcOrder : PcOrder[k] = p
    ELSE Len(PcOrder) + 1

\* C16: the stages of a run occur in the fixed order read, rate check,
\* collapse, peak, divide, model check, model load, inference, scan, emit,
\* each at most once; every step either moves the position in run_vad
\* forward or is a scan step from index i < N to i + 1, the scan starting at
\* 0 and ending at N, so that a run has at most Len(PcOrder) + N steps; and
\* a run that has not ended stands at one of the statements of run_vad,
\* inside the curve while it scans.
C16_LinearSinglePass ==
    /\ [](\A j, k \in DOMAIN trace :
            j < k => StageRank(trace[j]) < StageRank(trace[k]))
    /\ [][\/ PcRank(pc') > PcRank(pc)
          \/ (pc = "scan" /\ pc' = "scan" /\ i < N /\ i' = i + 1)]_vars
    /\ [][(pc # "scan" /\ pc' = "scan") => i' = 0]_vars
    /\ [](pc \in {"emit", "done"} => i = N)
    /\ [](~Terminated =>
            /\ PcRank(pc) <= Len(PcOrder)
            /\ pc = "scan" => i \in 0..N)

C16_Witness ==
    /\ pc = "done"
    /\ trace = StageOrder
    /\ i = N
    /\ N = MaxLen
ErrorDocs == {k \in DOMAIN stdout : stdout[k].kind = "error"}

\* C17: a run with both a rate mismatch and a missing model ends having
\* printed the rate-mismatch error alone, without reaching the model check;
\* no run prints more than one error, and the model check is never reached
\* before the rate check.
C17_ErrorPrecedence ==
    /\ (Mismatched /\ ~model_file.exists) =>
          /\ ~Ran("model_check")
          /\ Terminated =>
                /\ pc = "exited"
                /\ Len(stdout) = 1
                /\ stdout[1].kind = "error"
                /\ stdout[1].body[1] = "Sample rate mismatch: "
    /\ Cardinality(ErrorDocs) <= 1
    /\ \A k \in DOMAIN trace : trace[k] = "model_check" => Before("rate_check", k)

C17_Witness ==
    /\ pc = "exited"
    /\ Mismatched
    /\ ~model_file.exists
    /\ stdout = << ErrorDoc(RateMessage(wav_file.sr, sample_rate)) >>
\* C18: in every state two consecutive segments [s1, e1], [s2, e2] have
\* e1 < s2; the sample at every end index e < N is at or below the threshold
\* and the sample at every start index is above it.
C18_NeverTouch ==
    /\ \A k \in 1..(Len(segments) - 1) : segments[k][2] < segments[k + 1][1]
    /\ \A k \in DOMAIN segments :
          /\ speech_probs[segments[k][1] + 1] > threshold
          /\ segments[k][2] < N => speech_probs[segments[k][2] + 1] <= threshold

C18_Witness ==
    /\ pc = "done"
    /\ Len(segments) >= 2
    /\ segments[1][2] + 1 = segments[2][1]
    /\ speech_probs[segments[1][2] + 1] = threshold
ClosedBefore(c, t, k) == {r \in Runs(c, t) : r[2] < k}

\* C19: every step leaves the segments list as it is or appends one segment
\* to it; while scanning, with the first i samples read, the list holds, in
\* ascending order, exactly the maximal runs of the whole curve that end
\* before index i, which are also those of the first i samples alone.
C19_AppendOnlyPrefix ==
    /\ [][/\ Len(segments') \in {Len(segments), Len(segments) + 1}
          /\ SubSeq(segments', 1, Len(segments)) = segments]_vars
    /\ [][(pc = "scan" /\ pc' = "scan" /\ segments' # segments)
            => segments' = Append(segments, <<seg_start, i>>)]_vars
    /\ [](pc = "scan" =>
            /\ {segments[k] : k \in DOMAIN segments}
                  = ClosedBefore(speech_probs, threshold, i)
            /\ Len(segments) = Cardinality(ClosedBefore(speech_probs, threshold, i))
            /\ ClosedBefore(speech_probs, threshold, i)
                  = ClosedBefore(SubSeq(speech_probs, 1, i), threshold, i)
            /\ \A k \in 1..(Len(segments) - 1) :
                  segments[k][1] < segments[k + 1][1])

C19_Witness ==
    /\ pc = "scan"
    /\ i < N
    /\ in_speech
    /\ Len(segments) >= 1
    /\ Cardinality(Runs(speech_probs, threshold)) > Len(segments)
====
